---- MODULE Spec2Model ----
(***************************************************************************)
(* HOCS core: the zero-copy DMA buffer pool (hocs_dma_allocator.cpp) and   *)
(* the hardware safety monitor (hocs_scram_controller).                    *)
(*                                                                         *)
(* Machine words are modelled with a reduced width (SIZE_BITS instead of   *)
(* 64) and the watchdog deadline with a reduced number of ticks            *)
(* (WATCHDOG_LIMIT instead of 300_000_000); all arithmetic on them keeps   *)
(* the code's wrap-around and saturation.                                  *)
(***************************************************************************)
EXTENDS Integers, Sequences, FiniteSets, TLC

(* ------------------------------ bounds -------------------------------- *)
\* width of an int in the vector kernel's model (32 in the source)
INT_BITS == 4
\* rows and columns of the crossbar of the physics engine
matrix_size == 2
\* width of size_t / uintptr_t in the model (64 in the build)
SIZE_BITS == 24
\* watchdog deadline in ticks (parameter WATCHDOG_LIMIT, 300_000_000 in the RTL)
WATCHDOG_LIMIT == 3
\* number of threads that allocate concurrently
NumThreads == 2
\* total number of allocate_tensor_buffer calls in one behaviour
MaxCalls == 3
\* total number of fast_reset calls in one behaviour
MaxResets == 1

(* ======================================================================= *)
(*  SAFETY MONITOR  (hocs_scram_controller)                                *)
(* ======================================================================= *)

TEMP_CRITICAL_LIMIT == 200
STATE_OK == 0
STATE_WARNING == 1
STATE_SCRAM == 2
STATE_DEAD == 3

LED_GREEN == 1
LED_PANIC == 15

\* values of the 8-bit temperature input that are sampled: both sides of
\* the limit, the limit itself and the ends of the range
TempValues == {0, TEMP_CRITICAL_LIMIT - 1, TEMP_CRITICAL_LIMIT,
               TEMP_CRITICAL_LIMIT + 1, 255}
Bit == {0, 1}

\* bitwise complement of the 4-bit status_leds register
NotLeds(l) == 15 - l

\* the ghost tick counters stop counting here
GhostCap == WATCHDOG_LIMIT + 3

Min(a, b) == IF a < b THEN a ELSE b

VARIABLES
    \* --- safety monitor: inputs that the next clock edge samples
    rst_n, heartbeat_signal, temp_sensor_raw,
    \* --- safety monitor: registers
    watchdog_counter, heartbeat_prev, current_state,
    power_cut_trigger, system_locked, status_leds,
    \* --- safety monitor: history of the inputs (observers, not hardware)
    hb_seen,      \* heartbeat level sampled at the last clock edge
    sig_quiet,    \* clock edges since the heartbeat level last changed
    up_ticks,     \* clock edges since rst_n was last low
    chg_live,     \* the last level change was sampled with rst_n high, no reset since
    scen,         \* scenario C: edges since (OK, counter 0) with a quiet
                  \* heartbeat and temperature within the limit; -1 = none
    scen_aligned, \* the same, counted from (OK, counter 0) with
                  \* heartbeat_prev equal to the heartbeat level
    fed,          \* since rst_n was last low no sampled temperature was above
                  \* the limit and no WATCHDOG_LIMIT clock edges in a row
                  \* sampled an unchanged heartbeat level
    in_step,      \* the first clock edge after rst_n was last low did not
                  \* sample a heartbeat that fell from high to low
    \* --- buffer pool
    base_pointer, total_capacity, current_offset,
    pc, local, calls, epoch

scramVars == <<rst_n, heartbeat_signal, temp_sensor_raw,
               watchdog_counter, heartbeat_prev, current_state,
               power_cut_trigger, system_locked, status_leds,
               hb_seen, sig_quiet, up_ticks, chg_live, scen, scen_aligned,
               fed, in_step>>
poolVars == <<base_pointer, total_capacity, current_offset,
              pc, local, calls, epoch>>

VARIABLES
    \* --- crossbar controller (cuo_array_controller inside hocs_top)
    top_rst_n,        \* rst_n of hocs_top
    s_axis_tvalid,    \* start
    s_axis_tdata,     \* data_in, bits 11..0
    adc_in_parallel,  \* adc_in
    compute_enable,   \* wire of hocs_top that nothing drives
    core_state,       \* current_state of the controller
    delay_counter, dac_out, result_out, done,
    \* --- observers of the crossbar controller
    wait_cycles,      \* clock edges spent in STATE_WAIT in a row
    latched,          \* the ADC value sampled in the last STATE_READ; -1 = none
    busy_start,       \* start was sampled high in a busy state of the
                      \* operation in flight
    op_cycles,        \* clock edges since the controller last sat in IDLE
    \* --- kernel driver and the register file behind bar0_base
    drv_loaded,       \* hocs_driver_init returned 0 and no exit since
    held,             \* kernel resources held by the module
    init_ret,         \* what the last hocs_driver_init returned
    reg_control, reg_status, reg_error, reg_version,
    mmio_writes,      \* <<offset, value>> of every iowrite32 so far
    mmio_reads,       \* offset of every ioread32 so far
    last_ret,         \* operation and return value of the last file operation
    last_copy,        \* the last copy_from_user of hocs_write: bytes stored
                      \* at &cmd_reg, and bytes of cmd_reg it left unwritten
    job,              \* the hardware operation begun by CONTROL.start
    elapsed,          \* time since CONTROL.start was written, in ticks
    \* --- host dispatcher and packet codec (INTERFACE_SPEC.md)
    sub_outcome,      \* outcome of the dispatcher's last submission
    packet,           \* the job packet last given to encode
    wire,             \* the bytes in flight between encode and decode
    damage,           \* what happened to the bytes in flight
    decoded,          \* what decode made of the bytes in flight
    \* --- one allocation request on a fresh pool (hocs_dma_allocator.cpp)
    req_size,         \* the size_t given to allocate_tensor_buffer
    req_aligned,      \* its aligned_size, -1 before the call
    req_ret,          \* "none" before the call, then "null" or "buffer"
    \* --- one call of hocs_neon_accumulate (hocs_pci.c, ARM64 assembly)
    count,            \* the int argument the caller passed
    x2,               \* register x2, as a signed number
    elem,             \* elements x0 and x1 have advanced past
    neon_pc,          \* the label the routine is at
    adds,             \* per element of dest: how often src was added to it
    stray,            \* an element at an index >= count was loaded or stored
    \* --- one call of compute_optical_propagation (hocs_native_engine.cpp)
    team,             \* number of threads of the parallel region
    voltage_inputs,   \* the argument, one voltage per column
    temperature,      \* crossbar_array[idx].temperature
    current_outputs,  \* the vector returned
    eng_pc,           \* per thread: where it is in its loop nest
    row, col,         \* per thread: the loop variables
    row_current_sum,  \* per thread: the local accumulator
    current           \* per thread: the local current of the cell in hand

coreVars == <<top_rst_n, s_axis_tvalid, s_axis_tdata, adc_in_parallel,
              compute_enable, core_state, delay_counter, dac_out,
              result_out, done, wait_cycles, latched, busy_start, op_cycles>>
drvVars == <<drv_loaded, held, init_ret, reg_control, reg_status, reg_error,
             reg_version, mmio_writes, mmio_reads, last_ret, last_copy,
             job, elapsed>>
hostVars == <<sub_outcome, packet, wire, damage, decoded>>
reqVars == <<req_size, req_aligned, req_ret>>
neonVars == <<count, x2, elem, neon_pc, adds, stray>>
engVars == <<team, voltage_inputs, temperature, current_outputs, eng_pc,
             row, col, row_current_sum, current>>
fnVars == <<reqVars, neonVars, engVars>>
otherVars == <<coreVars, drvVars, hostVars, fnVars>>
vars == <<scramVars, poolVars, coreVars, drvVars, hostVars, fnVars>>

(* ---- watchdog always-block ------------------------------------------- *)
\* faulty variant: only a rising edge counts as a heartbeat
HeartbeatEdge_rising(hb, prev) == hb = 1 /\ prev = 0

\* the heartbeat edge detector: the sampled level differs from the register
HeartbeatEdge(hb, prev) == hb /= prev

\* faulty variant: the counter saturates one below the limit
WatchdogCounterNext_short(cnt, hb, prev) ==
    IF HeartbeatEdge(hb, prev) THEN 0
    ELSE IF cnt < WATCHDOG_LIMIT - 1 THEN cnt + 1 ELSE cnt

\* faulty variant: the counter does not saturate
WatchdogCounterNext_free(cnt, hb, prev) ==
    IF HeartbeatEdge(hb, prev) THEN 0 ELSE cnt + 1

\* next value of watchdog_counter at a clock edge with rst_n high
WatchdogCounterNext(cnt, hb, prev) ==
    IF HeartbeatEdge(hb, prev) THEN 0
    ELSE IF cnt < WATCHDOG_LIMIT THEN cnt + 1 ELSE cnt

\* next value of heartbeat_prev at a clock edge with rst_n high
HeartbeatPrevNext(hb, prev) ==
    IF HeartbeatEdge(hb, prev) THEN hb ELSE prev

(* ---- SCRAM FSM always-block ------------------------------------------ *)
\* faulty variant: the watchdog comparison is strict
ScramCondition_strict(temp, cnt) ==
    \/ temp > TEMP_CRITICAL_LIMIT
    \/ cnt > WATCHDOG_LIMIT

\* faulty variant: the temperature comparison is not strict
ScramCondition_ge(temp, cnt) ==
    \/ temp >= TEMP_CRITICAL_LIMIT
    \/ cnt >= WATCHDOG_LIMIT

\* faulty variant: the watchdog trips one count early
ScramCondition_early(temp, cnt) ==
    \/ temp > TEMP_CRITICAL_LIMIT
    \/ cnt >= WATCHDOG_LIMIT - 1

\* the condition on which STATE_OK is left
ScramCondition(temp, cnt) ==
    \/ temp > TEMP_CRITICAL_LIMIT
    \/ cnt >= WATCHDOG_LIMIT

\* faulty variant: a fresh heartbeat releases STATE_DEAD
FsmNextState_release(st, temp, cnt) ==
    CASE st = STATE_OK    -> IF ScramCondition(temp, cnt) THEN STATE_SCRAM
                             ELSE STATE_OK
      [] st = STATE_SCRAM -> STATE_DEAD
      [] st = STATE_DEAD  -> IF cnt = 0 THEN STATE_OK ELSE STATE_DEAD
      [] OTHER            -> st

\* faulty variant: SCRAM is left for OK when the temperature has fallen back
FsmNextState_cool(st, temp, cnt) ==
    CASE st = STATE_OK    -> IF ScramCondition(temp, cnt) THEN STATE_SCRAM
                             ELSE STATE_OK
      [] st = STATE_SCRAM -> IF temp > TEMP_CRITICAL_LIMIT THEN STATE_DEAD
                             ELSE STATE_OK
      [] OTHER            -> st

FsmNextState(st, temp, cnt) ==
    CASE st = STATE_OK    -> IF ScramCondition(temp, cnt) THEN STATE_SCRAM
                             ELSE STATE_OK
      [] st = STATE_SCRAM -> STATE_DEAD
      [] st = STATE_DEAD  -> STATE_DEAD
      [] OTHER            -> st     \* STATE_WARNING has no case item

\* faulty variant: only STATE_DEAD drives the relay
FsmNextPowerCut_late(st, pct) ==
    CASE st = STATE_DEAD  -> 1
      [] OTHER            -> pct

FsmNextPowerCut(st, pct) ==
    CASE st = STATE_SCRAM -> 1
      [] st = STATE_DEAD  -> 1
      [] OTHER            -> pct

FsmNextLocked(st, lck) ==
    IF st = STATE_SCRAM THEN 1 ELSE lck

FsmNextLeds(st, leds) ==
    CASE st = STATE_OK    -> LED_GREEN
      [] st = STATE_SCRAM -> LED_PANIC
      [] st = STATE_DEAD  -> NotLeds(leds)
      [] OTHER            -> leds

(* ---- the environment drives the inputs for the next clock edge -------- *)
DriveInputs ==
    /\ rst_n' \in Bit
    /\ heartbeat_signal' \in Bit
    /\ temp_sensor_raw' \in TempValues

(* ---- observers --------------------------------------------------------- *)
ObserveLevel ==
    /\ hb_seen' = heartbeat_signal
    /\ sig_quiet' = IF heartbeat_signal /= hb_seen THEN 0
                    ELSE Min(sig_quiet + 1, GhostCap)

\* the scenario goes on: no reset, the level did not change, and the
\* temperature is within the limit during the first WATCHDOG_LIMIT edges
ScenarioGoesOn(n, reset) ==
    /\ ~reset
    /\ n >= 0
    /\ heartbeat_signal = hb_seen
    /\ (temp_sensor_raw <= TEMP_CRITICAL_LIMIT \/ n >= WATCHDOG_LIMIT)

StartState == current_state' = STATE_OK /\ watchdog_counter' = 0

ObserveScenario(reset) ==
    /\ scen' = IF ScenarioGoesOn(scen, reset) THEN Min(scen + 1, GhostCap)
               ELSE IF StartState THEN 0 ELSE -1
    /\ scen_aligned' = IF StartState /\ heartbeat_prev' = heartbeat_signal THEN 0
                       ELSE IF ScenarioGoesOn(scen_aligned, reset)
                            THEN Min(scen_aligned + 1, GhostCap)
                            ELSE -1

\* clock edges with rst_n high in a row, this one included, at which the
\* sampled heartbeat level was the one sampled before
QuietRun ==
    Min(IF heartbeat_signal /= hb_seen THEN 0 ELSE sig_quiet + 1, up_ticks + 1)

ObserveFeeding ==
    /\ fed' = (/\ fed
               /\ temp_sensor_raw <= TEMP_CRITICAL_LIMIT
               /\ QuietRun < WATCHDOG_LIMIT)
    /\ in_step' = IF up_ticks = 0
                  THEN ~(hb_seen = 1 /\ heartbeat_signal = 0)
                  ELSE in_step

(* ---- posedge clk with rst_n high: both always-blocks, old values ------ *)
Tick ==
    /\ rst_n = 1
    /\ watchdog_counter' = WatchdogCounterNext(watchdog_counter, heartbeat_signal, heartbeat_prev)
    /\ heartbeat_prev' = HeartbeatPrevNext(heartbeat_signal, heartbeat_prev)
    /\ current_state' = FsmNextState(current_state, temp_sensor_raw, watchdog_counter)
    /\ power_cut_trigger' = FsmNextPowerCut(current_state, power_cut_trigger)
    /\ system_locked' = FsmNextLocked(current_state, system_locked)
    /\ status_leds' = FsmNextLeds(current_state, status_leds)
    /\ ObserveLevel
    /\ up_ticks' = Min(up_ticks + 1, GhostCap)
    /\ chg_live' = IF heartbeat_signal /= hb_seen THEN TRUE ELSE chg_live
    /\ ObserveScenario(FALSE)
    /\ ObserveFeeding
    /\ DriveInputs
    /\ UNCHANGED poolVars
    /\ UNCHANGED otherVars

(* ---- rst_n low: asynchronous reset of both always-blocks -------------- *)
HardReset ==
    /\ rst_n = 0
    /\ watchdog_counter' = 0
    /\ heartbeat_prev' = 0
    /\ current_state' = STATE_OK
    /\ power_cut_trigger' = 0
    /\ system_locked' = 0
    /\ status_leds' = LED_GREEN
    /\ ObserveLevel
    /\ up_ticks' = 0
    /\ chg_live' = FALSE
    /\ ObserveScenario(TRUE)
    /\ fed' = TRUE
    /\ in_step' = TRUE
    /\ DriveInputs
    /\ UNCHANGED poolVars
    /\ UNCHANGED otherVars

ScramInit ==
    /\ rst_n \in Bit
    /\ heartbeat_signal \in Bit
    /\ temp_sensor_raw \in TempValues
    /\ watchdog_counter = 0
    /\ heartbeat_prev = 0
    /\ current_state = STATE_OK
    /\ power_cut_trigger = 0
    /\ system_locked = 0
    /\ status_leds = LED_GREEN
    /\ hb_seen \in Bit
    /\ sig_quiet = 0
    /\ up_ticks = 0
    /\ chg_live = FALSE
    /\ scen = 0
    /\ scen_aligned = IF hb_seen = 0 THEN 0 ELSE -1
    /\ fed = TRUE
    /\ in_step = TRUE

ScramNext == Tick \/ HardReset


(* ======================================================================= *)
(*  BUFFER POOL  (HOCSMremoryManager)                                      *)
(* ======================================================================= *)

PAGE_SIZE == 4096
HUGE_PAGE_SIZE == 2 * 1024 * 1024
CACHE_LINE == 64
MiB == 1024 * 1024
NULL == 0

\* size_t and uintptr_t arithmetic is modulo 2^SIZE_BITS
Modulus == 2 ^ SIZE_BITS
SIZE_MAX == Modulus - 1
Wrap(x) == x % Modulus

Threads == 1 .. NumThreads

\* pool sizes given to the constructor, in MB
PoolSizesMb == {1, 4}
\* what aligned_alloc / mmap return: NULL (aligned_alloc failed, which the
\* constructor does not check), a page, a huge page
BaseAddrs == {NULL, HUGE_PAGE_SIZE}
\* sizes passed to allocate_tensor_buffer directly
Sizes == {1, MiB}
\* ints passed to alloc_tensor
IntArgs == {-CACHE_LINE}

\* faulty variant: no rounding
ALIGN_UP_none(x, align) == x

\* #define ALIGN_UP(x, align) (((x) + (align) - 1) & ~((align) - 1))
\* on size_t, align a power of two
ALIGN_UP(x, align) ==
    LET y == Wrap(x + align - 1) IN y - (y % align)

\* conversion of alloc_tensor's int argument to size_t (sign extension)
IntToSize(i) == Wrap(i)

\* std::atomic<size_t>::fetch_add: the value stored and the value returned
FetchAddStored(off, n) == Wrap(off + n)
\* faulty variant: add_fetch, the new value is returned
FetchAddReturned_new(off, n) == Wrap(off + n)
FetchAddReturned(off, n) == off

\* faulty variant: an exact fit is refused
OutOfMemory_ge(old, aligned, cap) == Wrap(old + aligned) >= cap

\* the test `old_offset + aligned_size > total_capacity`, in size_t
OutOfMemory(old, aligned, cap) == Wrap(old + aligned) > cap

\* (uintptr_t)base_pointer + old_offset
BufferAddr(base, old) == Wrap(base + old)

\* HOCSMremoryManager(pool_size_mb)
Capacity(mb) == Wrap(mb * 1024 * 1024)

PoolInit ==
    /\ base_pointer \in BaseAddrs
    /\ total_capacity \in {Capacity(mb) : mb \in PoolSizesMb}
    /\ current_offset = 0
    /\ pc = [t \in Threads |-> "idle"]
    /\ local = [t \in Threads |-> 0]
    /\ calls = << >>
    /\ epoch = 0

\* allocate_tensor_buffer, up to and including the atomic fetch_add.
\* calls is the log of all calls in the order of their fetch_add.
AllocFetch(t, size) ==
    /\ pc[t] = "idle"
    /\ Len(calls) < MaxCalls
    /\ LET aligned_size == ALIGN_UP(size, CACHE_LINE)
           old_offset == FetchAddReturned(current_offset, aligned_size)
       IN /\ current_offset' = FetchAddStored(current_offset, aligned_size)
          /\ calls' = Append(calls, [size |-> size,
                             aligned_size |-> aligned_size,
                             old_offset |-> old_offset,
                             epoch |-> epoch,
                             done |-> FALSE, ok |-> FALSE, ret |-> NULL])
    /\ local' = [local EXCEPT ![t] = Len(calls) + 1]
    /\ pc' = [pc EXCEPT ![t] = "fetched"]
    /\ UNCHANGED <<base_pointer, total_capacity, epoch>>
    /\ UNCHANGED scramVars
    /\ UNCHANGED otherVars

allocate_tensor_buffer(t) ==
    \E size \in Sizes : AllocFetch(t, size)

\* the C bridge: alloc_tensor(manager, int size)
alloc_tensor(t) ==
    \E i \in IntArgs : AllocFetch(t, IntToSize(i))

\* faulty variant: the return waits until no other caller is in flight
AllocReturn_locked(t) ==
    /\ pc[t] = "fetched"
    /\ \A u \in Threads \ {t} : pc[u] = "idle"
    /\ LET c == calls[local[t]]
           oom == OutOfMemory(c.old_offset, c.aligned_size, total_capacity)
       IN calls' = [calls EXCEPT ![local[t]] =
                       [c EXCEPT !.done = TRUE,
                                 !.ok = ~oom,
                                 !.ret = IF oom THEN NULL
                                         ELSE BufferAddr(base_pointer, c.old_offset)]]
    /\ pc' = [pc EXCEPT ![t] = "idle"]
    /\ UNCHANGED <<base_pointer, total_capacity, current_offset, local, epoch>>
    /\ UNCHANGED scramVars
    /\ UNCHANGED otherVars

\* allocate_tensor_buffer, from the capacity test to the return
AllocReturn(t) ==
    /\ pc[t] = "fetched"
    /\ LET c == calls[local[t]]
           oom == OutOfMemory(c.old_offset, c.aligned_size, total_capacity)
       IN calls' = [calls EXCEPT ![local[t]] =
                       [c EXCEPT !.done = TRUE,
                                 !.ok = ~oom,
                                 !.ret = IF oom THEN NULL
                                         ELSE BufferAddr(base_pointer, c.old_offset)]]
    /\ pc' = [pc EXCEPT ![t] = "idle"]
    /\ UNCHANGED <<base_pointer, total_capacity, current_offset, local, epoch>>
    /\ UNCHANGED scramVars
    /\ UNCHANGED otherVars

\* faulty variant: the store of 0 is lost
fast_reset_keep(t) ==
    /\ pc[t] = "idle"
    /\ epoch < MaxResets
    /\ current_offset' = current_offset
    /\ epoch' = epoch + 1
    /\ UNCHANGED <<base_pointer, total_capacity, pc, local, calls>>
    /\ UNCHANGED scramVars
    /\ UNCHANGED otherVars

\* faulty variant: the first cache line is kept back
fast_reset_line(t) ==
    /\ pc[t] = "idle"
    /\ epoch < MaxResets
    /\ current_offset' = CACHE_LINE
    /\ epoch' = epoch + 1
    /\ UNCHANGED <<base_pointer, total_capacity, pc, local, calls>>
    /\ UNCHANGED scramVars
    /\ UNCHANGED otherVars

fast_reset(t) ==
    /\ pc[t] = "idle"
    /\ epoch < MaxResets
    /\ current_offset' = 0
    /\ epoch' = epoch + 1
    /\ UNCHANGED <<base_pointer, total_capacity, pc, local, calls>>
    /\ UNCHANGED scramVars
    /\ UNCHANGED otherVars

PoolNext ==
    \E t \in Threads :
        \/ allocate_tensor_buffer(t)
        \/ alloc_tensor(t)
        \/ AllocReturn(t)
        \/ fast_reset(t)

(* ======================================================================= *)
(*  CROSSBAR CONTROLLER  (cuo_array_controller, instantiated by hocs_top)  *)
(* ======================================================================= *)

PRECISION == 12
STATE_IDLE == 0
STATE_LOAD == 1
STATE_WAIT == 2
STATE_READ == 3
STATE_DONE == 4
SETTLE_CYCLES == 20
DELAY_BITS == 8

BusyStates == {STATE_LOAD, STATE_WAIT, STATE_READ, STATE_DONE}

\* words on s_axis_tdata (one has bits above bit 11), ADC samples, and the
\* values the output registers, which no reset writes, can hold at power-up
TDataValues == {5, 4096 + 9}
AdcValues == {3, 7}
UninitWords == {0, 7}

\* .data_in(s_axis_tdata[11:0])
DataIn(tdata) == tdata % (2 ^ PRECISION)

\* faulty variant: a start sampled in WAIT or READ begins a new operation
CoreNextState_restart(st, start, dc) ==
    CASE st = STATE_IDLE -> IF start = 1 THEN STATE_LOAD ELSE STATE_IDLE
      [] st = STATE_LOAD -> STATE_WAIT
      [] st = STATE_WAIT -> IF start = 1 THEN STATE_LOAD
                            ELSE IF dc > SETTLE_CYCLES THEN STATE_READ
                            ELSE STATE_WAIT
      [] st = STATE_READ -> IF start = 1 THEN STATE_LOAD ELSE STATE_DONE
      [] st = STATE_DONE -> STATE_IDLE
      [] OTHER -> STATE_IDLE

\* the combinational next_state
CoreNextState(st, start, dc) ==
    CASE st = STATE_IDLE -> IF start = 1 THEN STATE_LOAD ELSE STATE_IDLE
      [] st = STATE_LOAD -> STATE_WAIT
      [] st = STATE_WAIT -> IF dc > SETTLE_CYCLES THEN STATE_READ ELSE STATE_WAIT
      [] st = STATE_READ -> STATE_DONE
      [] st = STATE_DONE -> STATE_IDLE
      [] OTHER -> STATE_IDLE

\* faulty variant: the counter keeps its value outside STATE_WAIT
DelayCounterNext_hold(st, dc) ==
    IF st = STATE_WAIT THEN (dc + 1) % (2 ^ DELAY_BITS) ELSE dc

\* delay_counter at a clock edge with rst_n high
DelayCounterNext(st, dc) ==
    IF st = STATE_WAIT THEN (dc + 1) % (2 ^ DELAY_BITS) ELSE 0

\* the output registers at a clock edge
DacOutNext(st, data_in, dac) == IF st = STATE_LOAD THEN data_in ELSE dac
ResultOutNext(st, adc, res) == IF st = STATE_READ THEN adc ELSE res
DoneNext(st, d) ==
    CASE st = STATE_LOAD -> 0
      [] st = STATE_DONE -> 1
      [] OTHER -> d

\* assign s_axis_tready = (compute_enable) ? 1'b0 : 1'b1
s_axis_tready == IF compute_enable = 1 THEN 0 ELSE 1
\* assign m_axis_tdata = {20'b0, core_data_out[11:0]}
m_axis_tdata == result_out % (2 ^ PRECISION)
m_axis_tvalid == done

\* the inputs of hocs_top are free at every clock edge
DriveTopInputs ==
    /\ top_rst_n' \in Bit
    /\ s_axis_tvalid' \in Bit
    /\ s_axis_tdata' \in TDataValues
    /\ adc_in_parallel' \in AdcValues
    /\ compute_enable' \in Bit

\* a rising clock edge with rst_n high
CoreTick ==
    /\ top_rst_n = 1
    /\ core_state' = CoreNextState(core_state, s_axis_tvalid, delay_counter)
    /\ delay_counter' = DelayCounterNext(core_state, delay_counter)
    /\ dac_out' = DacOutNext(core_state, DataIn(s_axis_tdata), dac_out)
    /\ result_out' = ResultOutNext(core_state, adc_in_parallel, result_out)
    /\ done' = DoneNext(core_state, done)
    /\ wait_cycles' = IF core_state = STATE_WAIT THEN wait_cycles + 1 ELSE 0
    /\ latched' = IF core_state = STATE_READ THEN adc_in_parallel ELSE latched
    /\ busy_start' = IF core_state = STATE_IDLE THEN FALSE
                     ELSE busy_start \/ s_axis_tvalid = 1
    /\ op_cycles' = IF core_state = STATE_IDLE THEN 0 ELSE op_cycles + 1
    /\ DriveTopInputs
    /\ UNCHANGED <<scramVars, poolVars, drvVars, hostVars, fnVars>>

\* rst_n low: the state register and the counter are cleared; the output
\* block has no reset branch and no case item for STATE_IDLE
CoreReset ==
    /\ top_rst_n = 0
    /\ core_state' = STATE_IDLE
    /\ delay_counter' = 0
    /\ wait_cycles' = 0
    /\ busy_start' = FALSE
    /\ op_cycles' = 0
    /\ DriveTopInputs
    /\ UNCHANGED <<dac_out, result_out, done, latched>>
    /\ UNCHANGED <<scramVars, poolVars, drvVars, hostVars, fnVars>>

\* power-up with rst_n asserted; dac_out, result_out and done hold whatever
\* the registers powered up with
CoreInit ==
    /\ top_rst_n = 0
    /\ s_axis_tvalid \in Bit
    /\ s_axis_tdata \in TDataValues
    /\ adc_in_parallel \in AdcValues
    /\ compute_enable \in Bit
    /\ core_state = STATE_IDLE
    /\ delay_counter = 0
    /\ dac_out \in UninitWords
    /\ result_out \in UninitWords
    /\ done \in Bit
    /\ wait_cycles = 0
    /\ latched = -1
    /\ busy_start = FALSE
    /\ op_cycles = 0

\* the controller held in reset with its inputs tied low
CoreParked ==
    /\ CoreInit
    /\ s_axis_tvalid = 0
    /\ s_axis_tdata = 5
    /\ adc_in_parallel = 3
    /\ compute_enable = 0
    /\ dac_out = 0
    /\ result_out = 0
    /\ done = 0

CoreNext == CoreTick \/ CoreReset

(* ======================================================================= *)
(*  KERNEL DRIVER  (hocs_pci.c) and the registers of INTERFACE_SPEC.md     *)
(* ======================================================================= *)

REG_CONTROL == 0
REG_STATUS == 4
REG_IRQ_ACK == 8
REG_ERROR == 8
REG_VERSION == 12
REG_TEMP == 16
ReadOnlyRegs == {REG_STATUS, REG_ERROR, REG_VERSION, REG_TEMP}

CTRL_START == 1
CTRL_ABORT == 2
CTRL_SOFT_RESET == 4
STATUS_IDLE == 1
STATUS_BUSY == 2
STATUS_DATA_READY == 4
ERR_NONE == 1
ERR_DMA_TIMEOUT == 2
THERMAL_CRITICAL == 57005
IRQ_PENDING == 1
HW_VER == 132096
SW_VER == HW_VER
SIZEOF_U32 == 4
EFAULT == 14
ENOMEM == 12
KPTR == 1

\* time is counted in ticks; the timeout of 100 ms is TimeoutTicks ticks
TimeoutTicks == 2

Commands == {CTRL_START, CTRL_ABORT, CTRL_SOFT_RESET}
\* the len of a write(2): nothing, the command word, two words
WriteLens == {0, SIZEOF_U32, 2 * SIZEOF_U32}
\* what a cmd_reg that no copy wrote can hold, e.g. an earlier command
StackWords == {CTRL_START, CTRL_SOFT_RESET}
ErrorValues == {0, ERR_NONE, ERR_DMA_TIMEOUT, THERMAL_CRITICAL}
HwVersions == {HW_VER, HW_VER - 256}

\* what the four kernel calls of hocs_driver_init can return: 0 or a
\* negative errno; a valid pointer or an ERR_PTR (a negative value here)
ChrdevResults == {0, -ENOMEM}
PtrResults == {KPTR, -ENOMEM}
CdevAddResults == {0, -ENOMEM}
ValidPtr(ptr) == ptr > 0

\* device_create refuses a class that is an ERR_PTR
DeviceCreate(cls, r3) == IF ValidPtr(cls) THEN r3 ELSE -ENOMEM

\* the return value of hocs_driver_init
InitRet(r1, r2, r3, r4) ==
    IF r1 < 0 THEN -1
    ELSE IF r2 = NULL THEN -1
    ELSE IF DeviceCreate(r2, r3) = NULL THEN -1
    ELSE IF r4 = -1 THEN -1
    ELSE 0

\* the kernel resources the module holds when hocs_driver_init returns
InitHeld(r1, r2, r3, r4) ==
    IF InitRet(r1, r2, r3, r4) /= 0 THEN {}
    ELSE {"chrdev_region"}
         \cup (IF ValidPtr(r2) THEN {"class"} ELSE {})
         \cup (IF ValidPtr(DeviceCreate(r2, r3)) THEN {"device"} ELSE {})
         \cup (IF r4 = 0 THEN {"cdev"} ELSE {})

\* module_init: four registration steps, no register access
hocs_driver_init ==
    /\ ~drv_loaded
    /\ \E r1 \in ChrdevResults, r2 \in PtrResults,
          r3 \in PtrResults, r4 \in CdevAddResults :
          /\ init_ret' = InitRet(r1, r2, r3, r4)
          /\ held' = InitHeld(r1, r2, r3, r4)
          /\ drv_loaded' = (InitRet(r1, r2, r3, r4) = 0)
    /\ UNCHANGED <<reg_control, reg_status, reg_error, reg_version,
                   mmio_writes, mmio_reads, last_ret, job, elapsed>>
    /\ UNCHANGED last_copy
    /\ UNCHANGED <<scramVars, poolVars, coreVars, hostVars, fnVars>>

\* module_exit
hocs_driver_exit ==
    /\ drv_loaded
    /\ drv_loaded' = FALSE
    /\ held' = {}
    /\ UNCHANGED <<init_ret, reg_control, reg_status, reg_error, reg_version,
                   mmio_writes, mmio_reads, last_ret, job, elapsed>>
    /\ UNCHANGED last_copy
    /\ UNCHANGED <<scramVars, poolVars, coreVars, hostVars, fnVars>>

\* the device file exists and its cdev is registered
DeviceFile == drv_loaded /\ {"device", "cdev"} \subseteq held

hocs_open ==
    /\ DeviceFile
    /\ last_ret' = [op |-> "open", ret |-> 0]
    /\ UNCHANGED <<drv_loaded, held, init_ret, reg_control, reg_status,
                   reg_error, reg_version, mmio_writes, mmio_reads, job, elapsed>>
    /\ UNCHANGED last_copy
    /\ UNCHANGED <<scramVars, poolVars, coreVars, hostVars, fnVars>>

\* read(2): one ioread32 of STATUS, then copy_to_user
hocs_read ==
    /\ DeviceFile
    /\ mmio_reads' = mmio_reads \cup {REG_STATUS}
    /\ \E fault \in BOOLEAN :
          last_ret' = [op |-> "read",
                       ret |-> IF fault THEN -EFAULT ELSE SIZEOF_U32]
    /\ UNCHANGED <<drv_loaded, held, init_ret, reg_control, reg_status,
                   reg_error, reg_version, mmio_writes, job, elapsed>>
    /\ UNCHANGED last_copy
    /\ UNCHANGED <<scramVars, poolVars, coreVars, hostVars, fnVars>>

\* what the device does with a word written to CONTROL (register map, 5.1)
JobAfterControl(cmd, j) ==
    IF cmd = CTRL_START THEN "running"
    ELSE IF cmd \in {CTRL_ABORT, CTRL_SOFT_RESET} THEN "none"
    ELSE j
StatusAfterControl(cmd, st) ==
    IF cmd = CTRL_START THEN STATUS_BUSY
    ELSE IF cmd \in {CTRL_ABORT, CTRL_SOFT_RESET} THEN STATUS_IDLE
    ELSE st

\* copy_from_user(&cmd_reg, buf, len) stores len bytes at &cmd_reg: the
\* bytes of cmd_reg it does not reach keep what the stack held, and a len
\* above sizeof(cmd_reg) stores behind the variable
CopyFromUser(len) ==
    [len |-> len,
     unwritten |-> IF len < SIZEOF_U32 THEN SIZEOF_U32 - len ELSE 0]

\* cmd_reg after the copy: the user's word, or what the stack held when
\* the copy stored nothing
CmdReg(cmd, len, stack) == IF len = 0 THEN stack ELSE cmd

\* write(2): copy_from_user, then one iowrite32 to CONTROL; returns len
hocs_write ==
    /\ DeviceFile
    /\ \E cmd \in Commands, len \in WriteLens, stack \in StackWords,
          fault \in BOOLEAN :
          IF fault
          THEN /\ last_ret' = [op |-> "write", ret |-> -EFAULT]
               /\ UNCHANGED <<reg_control, reg_status, mmio_writes, job,
                              elapsed, last_copy>>
          ELSE /\ last_copy' = CopyFromUser(len)
               /\ mmio_writes' = mmio_writes
                                   \cup {<<REG_CONTROL, CmdReg(cmd, len, stack)>>}
               /\ reg_control' = CmdReg(cmd, len, stack)
               /\ reg_status' = StatusAfterControl(CmdReg(cmd, len, stack), reg_status)
               /\ job' = JobAfterControl(CmdReg(cmd, len, stack), job)
               /\ elapsed' = 0
               /\ last_ret' = [op |-> "write", ret |-> len]
    /\ UNCHANGED <<drv_loaded, held, init_ret, reg_error, reg_version, mmio_reads>>
    /\ UNCHANGED <<scramVars, poolVars, coreVars, hostVars, fnVars>>

\* the interrupt handler: reads offset 0x08 and, when bit 0 is set, writes
\* 0x01 to offset 0x08; the device keeps the register or clears the bit
hocs_irq_handler ==
    /\ drv_loaded
    /\ mmio_reads' = mmio_reads \cup {REG_IRQ_ACK}
    /\ IF reg_error % 2 = IRQ_PENDING
       THEN /\ mmio_writes' = mmio_writes \cup {<<REG_IRQ_ACK, IRQ_PENDING>>}
            /\ reg_error' \in {reg_error, reg_error - IRQ_PENDING}
       ELSE UNCHANGED <<mmio_writes, reg_error>>
    /\ UNCHANGED <<drv_loaded, held, init_ret, reg_control, reg_status,
                   reg_version, last_ret, job, elapsed>>
    /\ UNCHANGED last_copy
    /\ UNCHANGED <<scramVars, poolVars, coreVars, hostVars, fnVars>>

\* the device finishes the operation in flight
DeviceDone ==
    /\ job = "running"
    /\ job' = "done"
    /\ reg_status' = STATUS_DATA_READY
    /\ UNCHANGED <<drv_loaded, held, init_ret, reg_control, reg_error,
                   reg_version, mmio_writes, mmio_reads, last_ret, elapsed>>
    /\ UNCHANGED last_copy
    /\ UNCHANGED <<scramVars, poolVars, coreVars, hostVars, fnVars>>

\* the device changes the register at offset 0x08
DeviceError ==
    /\ \E e \in ErrorValues : reg_error' = e /\ e /= reg_error
    /\ UNCHANGED <<drv_loaded, held, init_ret, reg_control, reg_status,
                   reg_version, mmio_writes, mmio_reads, last_ret, job, elapsed>>
    /\ UNCHANGED last_copy
    /\ UNCHANGED <<scramVars, poolVars, coreVars, hostVars, fnVars>>

\* one tick of time goes by while the device is busy
TimePasses ==
    /\ job = "running"
    /\ elapsed <= TimeoutTicks
    /\ elapsed' = elapsed + 1
    /\ UNCHANGED <<drv_loaded, held, init_ret, reg_control, reg_status, reg_error,
                   reg_version, mmio_writes, mmio_reads, last_ret, job>>
    /\ UNCHANGED last_copy
    /\ UNCHANGED <<scramVars, poolVars, coreVars, hostVars, fnVars>>

\* the module is not loaded; the device is idle
DrvInit ==
    /\ drv_loaded = FALSE
    /\ held = {}
    /\ init_ret = 0
    /\ reg_control = 0
    /\ reg_status = STATUS_IDLE
    /\ reg_error = 0
    /\ reg_version \in HwVersions
    /\ mmio_writes = {}
    /\ mmio_reads = {}
    /\ last_ret = [op |-> "none", ret |-> 0]
    /\ last_copy = [len |-> 0, unwritten |-> 0]
    /\ job = "none"
    /\ elapsed = 0

DrvParked == DrvInit /\ reg_version = HW_VER

DrvNext ==
    \/ hocs_driver_init
    \/ hocs_driver_exit
    \/ hocs_open
    \/ hocs_read
    \/ hocs_write
    \/ hocs_irq_handler
    \/ DeviceDone
    \/ DeviceError
    \/ TimePasses

(* ======================================================================= *)
(*  HOST DISPATCHER AND PACKET CODEC  (INTERFACE_SPEC.md)                   *)
(* ======================================================================= *)

(* ---- packet codec: the envelope of section 2 -------------------------- *)
\* byte offsets and size of the header fields
OFF_MAGIC == 0
OFF_OPCODE == 4
OFF_PAYLOAD_LEN == 8
OFF_TILE_ID == 12
OFF_DATA == 16
FIELD_SIZE == 4
\* the constant of the MAGIC_VAL field, "H0C5" read as four characters
MAGIC_VAL == 1211122485
OP_WRITE == 1
OP_READ == 2
OP_CONFIG == 3
Opcodes == {OP_WRITE, OP_READ, OP_CONFIG}
MAX_PAYLOAD == 4194304

\* longest payload of the generated packets, in bytes
MaxPayload == 2

BYTE == 256
HALF == 65536
\* the reflected CRC-32 polynomial EDB88320, as two 16-bit halves
CRC_POLY_HI == 60856
CRC_POLY_LO == 33568

\* faulty variant: most significant byte first
LE32_be(v) ==
    <<v \div (BYTE * HALF), (v \div HALF) % BYTE, (v \div BYTE) % BYTE, v % BYTE>>

\* a 32-bit field on the wire: little endian, least significant byte first
LE32(v) ==
    <<v % BYTE, (v \div BYTE) % BYTE, (v \div HALF) % BYTE, v \div (BYTE * HALF)>>

\* the four bytes of the field at a byte offset
FieldAt(bytes, off) == SubSeq(bytes, off + 1, off + FIELD_SIZE)

\* the value of a field whose top byte is below 128
U32(b) == b[1] + BYTE * b[2] + HALF * b[3] + BYTE * HALF * b[4]

\* a 32-bit field exceeds n, for n below 2^24
U32Exceeds(b, n) == b[4] > 0 \/ b[1] + BYTE * b[2] + HALF * b[3] > n

\* bitwise exclusive or of two n-bit numbers
RECURSIVE XorBits(_, _, _)
XorBits(a, b, n) ==
    IF n = 0 THEN 0
    ELSE ((a + b) % 2) + 2 * XorBits(a \div 2, b \div 2, n - 1)

\* one bit of the CRC register <<high half, low half>>: shift right, and
\* subtract the polynomial when the bit shifted out is set
CrcShift(r) ==
    LET hi == r[1] \div 2
        lo == (r[2] \div 2) + (r[1] % 2) * (HALF \div 2)
    IN IF r[2] % 2 = 1
       THEN <<XorBits(hi, CRC_POLY_HI, 16), XorBits(lo, CRC_POLY_LO, 16)>>
       ELSE <<hi, lo>>

\* one byte: exclusive or into the low byte, then eight shifts
CrcByte(r, b) ==
    LET r0 == <<r[1], XorBits(r[2], b, 16)>>
    IN CrcShift(CrcShift(CrcShift(CrcShift(
       CrcShift(CrcShift(CrcShift(CrcShift(r0))))))))

\* the register after bytes[a .. b], the range split in halves; the test
\* on r makes the register a value before the recursion descends
RECURSIVE CrcRange(_, _, _, _)
CrcRange(r, bytes, a, b) ==
    IF a > b \/ r[1] < 0 THEN r
    ELSE IF a = b THEN CrcByte(r, bytes[a])
    ELSE CrcRange(CrcRange(r, bytes, a, (a + b) \div 2),
                  bytes, ((a + b) \div 2) + 1, b)

\* CRC-32 of a byte sequence (register preset to all ones, result
\* inverted), as the four bytes of the footer
Crc32(bytes) ==
    LET r == CrcRange(<<HALF - 1, HALF - 1>>, bytes, 1, Len(bytes))
        hi == HALF - 1 - r[1]
        lo == HALF - 1 - r[2]
    IN <<lo % BYTE, lo \div BYTE, hi % BYTE, hi \div BYTE>>

\* faulty variant: tile_id is written before payload_len
Header_swapped(opcode, len, tile_id) ==
    LE32(MAGIC_VAL) \o LE32(opcode) \o LE32(tile_id) \o LE32(len)

\* the 16 bytes of the header
Header(opcode, len, tile_id) ==
    LE32(MAGIC_VAL) \o LE32(opcode) \o LE32(len) \o LE32(tile_id)

\* encode(opcode, tile_id, payload) -> bytes
Encode(opcode, tile_id, payload) ==
    LET body == Header(opcode, Len(payload), tile_id) \o payload
    IN body \o Crc32(body)

\* what decode returns: a packet, or an error that carries no field;
\* touched is the number of leading bytes of the buffer that were read
Fail(kind, touched) ==
    [result |-> kind, opcode |-> 0, tile_id |-> 0, payload |-> <<>>,
     touched |-> touched]
NoResult == Fail("none", 0)
NoPacket == [opcode |-> 0, tile_id |-> 0, payload |-> <<>>]

\* decode once the magic was accepted: length, then checksum, then fields
DecodeBody(bytes) ==
    IF Len(bytes) < OFF_DATA + FIELD_SIZE
    THEN Fail("Truncated", Min(Len(bytes), OFF_DATA))
    ELSE IF U32Exceeds(FieldAt(bytes, OFF_PAYLOAD_LEN),
                       Len(bytes) - OFF_DATA - FIELD_SIZE)
    THEN Fail("Truncated", OFF_DATA)
    ELSE LET end == OFF_DATA + U32(FieldAt(bytes, OFF_PAYLOAD_LEN))
         IN IF Crc32(SubSeq(bytes, 1, end)) /= FieldAt(bytes, end)
            THEN Fail("ChecksumError", end + FIELD_SIZE)
            ELSE [result |-> "JobPacket",
                  opcode |-> U32(FieldAt(bytes, OFF_OPCODE)),
                  tile_id |-> U32(FieldAt(bytes, OFF_TILE_ID)),
                  payload |-> SubSeq(bytes, OFF_DATA + 1, end),
                  touched |-> end + FIELD_SIZE]

\* the bytes of the magic field that the buffer holds are the magic's
MagicOk(bytes) ==
    LET m == Min(Len(bytes), OFF_MAGIC + FIELD_SIZE)
    IN SubSeq(bytes, 1, m) = SubSeq(LE32(MAGIC_VAL), 1, m)

\* faulty variant: the length is looked at before the magic
Decode_len_first(bytes) ==
    IF Len(bytes) < OFF_DATA + FIELD_SIZE
    THEN Fail("Truncated", Min(Len(bytes), OFF_DATA))
    ELSE IF ~MagicOk(bytes)
    THEN Fail("MagicMismatch", OFF_MAGIC + FIELD_SIZE)
    ELSE DecodeBody(bytes)

\* decode(bytes) -> JobPacket | ChecksumError | MagicMismatch | Truncated
Decode(bytes) ==
    IF ~MagicOk(bytes)
    THEN Fail("MagicMismatch", Min(Len(bytes), OFF_MAGIC + FIELD_SIZE))
    ELSE DecodeBody(bytes)

\* the packets given to encode: payloads of up to MaxPayload bytes, and
\* the payload of 256 zero-valued int16 entries
PayloadBytes == {0, 255}
TileIds == {0, 7, 16909060}
ScenarioPayload == [i \in 1 .. 256 * 2 |-> 0]
Payloads ==
    UNION {[1 .. n -> PayloadBytes] : n \in 0 .. MaxPayload}
        \cup {ScenarioPayload}

CodecUnchanged ==
    UNCHANGED <<sub_outcome, scramVars, poolVars, coreVars, drvVars, fnVars>>

\* a packet is encoded into the transfer buffer
encode(opcode, tile_id, payload) ==
    /\ packet = NoPacket
    /\ Len(payload) <= MAX_PAYLOAD
    /\ packet' = [opcode |-> opcode, tile_id |-> tile_id, payload |-> payload]
    /\ wire' = Encode(opcode, tile_id, payload)
    /\ UNCHANGED <<damage, decoded>>
    /\ CodecUnchanged

\* no submission made, nothing encoded
HostParked ==
    /\ sub_outcome = "none"
    /\ packet = NoPacket
    /\ wire = <<>>
    /\ damage = {}
    /\ decoded = NoResult

(* ---- the bytes in flight between encode and decode -------------------- *)
InFlight == packet /= NoPacket /\ decoded = NoResult

\* byte i of the bytes in flight takes another value
Damaged(i) == [wire EXCEPT ![i] = (wire[i] + 1) % BYTE]

Hit(kind, bytes) ==
    /\ InFlight
    /\ kind \notin damage
    /\ wire' = bytes
    /\ damage' = damage \cup {kind}
    /\ UNCHANGED <<packet, decoded>>
    /\ CodecUnchanged

\* a byte of the magic field is changed
CorruptMagic(i) ==
    /\ i <= Len(wire)
    /\ Hit("magic", Damaged(i))

\* the buffer ends after n bytes; a changed magic byte is not cut off
TruncLens == {0, OFF_MAGIC + FIELD_SIZE - 1, OFF_DATA - 1,
              OFF_DATA + FIELD_SIZE - 1, Len(wire) - 1}
Truncate(n) ==
    /\ n < Len(wire)
    /\ "magic" \in damage => n >= OFF_MAGIC + FIELD_SIZE
    /\ Hit("trunc", SubSeq(wire, 1, n))

\* a byte of payload_len is raised
RaiseLen(i) ==
    /\ i <= Len(wire)
    /\ Hit("len", Damaged(i))

\* a byte of opcode, tile_id or payload is changed
CorruptBody(i) ==
    /\ i <= Len(wire) - FIELD_SIZE
    /\ Hit("body", Damaged(i))

\* the last byte of the footer is changed
CorruptCrc ==
    /\ "trunc" \notin damage
    /\ Hit("crc", Damaged(Len(wire)))

\* the receiver decodes the buffer
decode ==
    /\ InFlight
    /\ decoded' = Decode(wire)
    /\ UNCHANGED <<packet, wire, damage>>
    /\ CodecUnchanged

\* the packet is discarded after decoding
discard ==
    /\ decoded /= NoResult
    /\ packet' = NoPacket
    /\ wire' = <<>>
    /\ damage' = {}
    /\ decoded' = NoResult
    /\ CodecUnchanged

CodecNext ==
    \/ \E opcode \in Opcodes, tile_id \in TileIds, payload \in Payloads :
          encode(opcode, tile_id, payload)
    \/ \E i \in {OFF_MAGIC + 1, OFF_MAGIC + FIELD_SIZE} : CorruptMagic(i)
    \/ \E n \in TruncLens : Truncate(n)
    \/ \E i \in {OFF_PAYLOAD_LEN + 1, OFF_PAYLOAD_LEN + FIELD_SIZE} : RaiseLen(i)
    \/ \E i \in {OFF_OPCODE + 1, OFF_TILE_ID + 1, OFF_DATA + 1} : CorruptBody(i)
    \/ CorruptCrc
    \/ decode
    \/ discard

(* ---- job dispatcher --------------------------------------------------- *)
\* how a submission can end
Outcomes == {"success", "DmaTimeout", "OutOfMemory", "PacketError"}

\* one submission: allocation, encoding, CONTROL.start and the wait for the
\* device decide the outcome, and whatever the outcome the heartbeat toggle
\* is advanced once.  A submission takes microseconds of driver calls and a
\* clock period of the monitor nanoseconds, so at most one submission falls
\* between two clock edges.
submit(outcome) ==
    /\ heartbeat_signal = hb_seen
    /\ sub_outcome' = outcome
    /\ heartbeat_signal' = 1 - heartbeat_signal
    /\ UNCHANGED <<rst_n, temp_sensor_raw, watchdog_counter, heartbeat_prev,
                   current_state, power_cut_trigger, system_locked,
                   status_leds, hb_seen, sig_quiet, up_ticks, chg_live,
                   scen, scen_aligned, fed, in_step>>
    /\ UNCHANGED <<packet, wire, damage, decoded>>
    /\ UNCHANGED <<poolVars, coreVars, drvVars, fnVars>>

\* the monitor's clock edges while the dispatcher alone drives the heartbeat
DispatchTick == Tick /\ heartbeat_signal' = heartbeat_signal
DispatchReset == HardReset /\ heartbeat_signal' = heartbeat_signal

DispatchNext ==
    \/ \E outcome \in Outcomes : submit(outcome)
    \/ DispatchTick
    \/ DispatchReset

(* ======================================================================= *)
(*  ONE ALLOCATION REQUEST  (hocs_dma_allocator.cpp, ALIGN_UP)              *)
(* ======================================================================= *)

\* sizes requested: the small ones and the ones within two cache lines of
\* the largest size_t
RequestSizes ==
    (0 .. 2 * CACHE_LINE) \cup (SIZE_MAX - 2 * CACHE_LINE .. SIZE_MAX)

\* no request made
ReqParked ==
    /\ req_size = 0
    /\ req_aligned = -1
    /\ req_ret = "none"

ReqInit ==
    /\ req_size \in RequestSizes
    /\ req_aligned = -1
    /\ req_ret = "none"

\* allocate_tensor_buffer(size) as the first call on a pool of 1 MiB:
\* old_offset is 0
AllocateFresh ==
    /\ req_ret = "none"
    /\ req_aligned' = ALIGN_UP(req_size, CACHE_LINE)
    /\ req_ret' = IF OutOfMemory(0, ALIGN_UP(req_size, CACHE_LINE), Capacity(1))
                  THEN "null" ELSE "buffer"
    /\ UNCHANGED req_size
    /\ UNCHANGED <<scramVars, poolVars, coreVars, drvVars, hostVars, neonVars, engVars>>

ReqNext == AllocateFresh

(* ======================================================================= *)
(*  VECTOR KERNEL  (hocs_neon_accumulate, AArch64 assembly in hocs_pci.c)   *)
(* ======================================================================= *)

\* an int has INT_BITS bits, an x register twice as many
INT_MIN == -(2 ^ (INT_BITS - 1))
INT_MAX == 2 ^ (INT_BITS - 1) - 1
REG_BITS == 2 * INT_BITS
Ints == INT_MIN .. INT_MAX

\* the upper half of x2 on entry: the procedure call standard passes an int
\* in w2 and leaves the other bits of the register unspecified
UpperHalves == 0 .. 2 ^ INT_BITS - 1

\* the signed value of a register holding the bit pattern raw
Signed(raw) == IF raw >= 2 ^ (REG_BITS - 1) THEN raw - 2 ^ REG_BITS ELSE raw

\* x2 on entry, from the int in w2 and the upper half
RegOfInt(c, upper) == Signed(upper * 2 ^ INT_BITS + (c % 2 ^ INT_BITS))

\* ld1 {v0.4s} / st1 {v1.4s} / sub x2, x2, #4
VECTOR_LANES == 4

\* the elements of dest and src the caller owns: indices below count
Elements == 0 .. INT_MAX - 1
Owned(i) == i < count

\* src[i] added to dest[i] for the n elements from elem on
Added(n) ==
    [i \in Elements |-> IF i >= elem /\ i < elem + n THEN adds[i] + 1
                        ELSE adds[i]]
Strays(n) == \E i \in elem .. elem + n - 1 : ~Owned(i)

NeonIdle ==
    /\ elem = 0
    /\ adds = [i \in Elements |-> 0]
    /\ stray = FALSE

\* no call made
NeonParked ==
    /\ count = 0
    /\ x2 = 0
    /\ neon_pc = "L_done"
    /\ NeonIdle

\* the call hocs_neon_accumulate(dest, src, count)
NeonInit ==
    /\ count \in Ints
    /\ \E upper \in UpperHalves : x2 = RegOfInt(count, upper)
    /\ neon_pc = "entry"
    /\ NeonIdle

NeonUnchanged ==
    UNCHANGED <<count, scramVars, poolVars, coreVars, drvVars, hostVars,
                reqVars, engVars>>

\* cmp x2, #0 ; ble .L_done
NeonEntry ==
    /\ neon_pc = "entry"
    /\ neon_pc' = IF x2 <= 0 THEN "L_done" ELSE "L_loop"
    /\ UNCHANGED <<x2, elem, adds, stray>>
    /\ NeonUnchanged

\* .L_loop: cmp x2, #4 ; blt .L_cleanup ; one block of four ; b .L_loop
L_loop ==
    /\ neon_pc = "L_loop"
    /\ IF x2 < VECTOR_LANES
       THEN /\ neon_pc' = "L_cleanup"
            /\ UNCHANGED <<x2, elem, adds, stray>>
       ELSE /\ adds' = Added(VECTOR_LANES)
            /\ stray' = (stray \/ Strays(VECTOR_LANES))
            /\ elem' = elem + VECTOR_LANES
            /\ x2' = x2 - VECTOR_LANES
            /\ UNCHANGED neon_pc
    /\ NeonUnchanged

\* .L_cleanup: cmp x2, #0 ; beq .L_done ; one element ; b .L_cleanup
L_cleanup ==
    /\ neon_pc = "L_cleanup"
    /\ IF x2 = 0
       THEN /\ neon_pc' = "L_done"
            /\ UNCHANGED <<x2, elem, adds, stray>>
       ELSE /\ adds' = Added(1)
            /\ stray' = (stray \/ Strays(1))
            /\ elem' = elem + 1
            /\ x2' = x2 - 1
            /\ UNCHANGED neon_pc
    /\ NeonUnchanged

NeonNext == NeonEntry \/ L_loop \/ L_cleanup

(* ======================================================================= *)
(*  PHYSICS ENGINE  (HOCSEngine::compute_optical_propagation)               *)
(* ======================================================================= *)

T_AMBIENT == 300

Rows == 0 .. matrix_size - 1
Cells == 0 .. matrix_size * matrix_size - 1
\* voltages given per column
Volts == {1, 2}

\* cell.conductance after initialize_physics, in microsiemens
Conductance(idx) == 1

\* faulty variant: the row is not scaled by the matrix size
CellIndex_flat(r, c) == r + c
\* int idx = row * matrix_size + col
CellIndex(r, c) == r * matrix_size + c

\* G * V * exp(-0.1 / (BOLTZMANN_K * T)) in whole numbers: like the source's
\* expression it grows with each of G, V and T
CellCurrent(G, V, T) == G * V * T

\* (current * V) * 1e-9, in whole numbers
SelfHeating(cur, V) == cur * V

\* schedule(static): the rows are cut into one block per thread
ChunkSize == (matrix_size + team - 1) \div team
FirstRow(t) == Min((t - 1) * ChunkSize, matrix_size)
EndRow(t) == Min(t * ChunkSize, matrix_size)

\* the memory locations the next step of thread t loads and stores
Idx(t) == CellIndex(row[t], col[t])
NextLoads(t) ==
    CASE eng_pc[t] = "for_col" /\ col[t] < matrix_size ->
             {<<"conductance", Idx(t)>>, <<"voltage_inputs", col[t]>>,
              <<"temperature", Idx(t)>>}
      [] eng_pc[t] = "heat" ->
             {<<"temperature", Idx(t)>>}
      [] OTHER -> {}
NextStores(t) ==
    CASE eng_pc[t] = "for_col" /\ col[t] = matrix_size ->
             {<<"current_outputs", row[t]>>}
      [] eng_pc[t] = "heat" ->
             {<<"temperature", Idx(t)>>}
      [] OTHER -> {}

\* two threads are about to access one location, one of them storing
DataRace ==
    \E t, u \in Threads :
        /\ t /= u
        /\ NextStores(t) \cap (NextLoads(u) \cup NextStores(u)) /= {}

\* the sequential execution of the loop nest on a newly built engine
RECURSIVE SeqRowSum(_, _)
SeqRowSum(r, c) ==
    IF c = 0 THEN 0
    ELSE SeqRowSum(r, c - 1)
         + CellCurrent(Conductance(CellIndex(r, c - 1)),
                       voltage_inputs[c - 1], T_AMBIENT)
SeqOutputs == [r \in Rows |-> SeqRowSum(r, matrix_size)]
SeqTemperature ==
    [i \in Cells |->
        T_AMBIENT
        + SelfHeating(CellCurrent(Conductance(i),
                                  voltage_inputs[i % matrix_size], T_AMBIENT),
                      voltage_inputs[i % matrix_size])]

\* the engine as built: every cell at ambient temperature; no call made
EngParked ==
    /\ team = 1
    /\ voltage_inputs = [c \in Rows |-> 1]
    /\ temperature = [i \in Cells |-> T_AMBIENT]
    /\ current_outputs = [r \in Rows |-> 0]
    /\ eng_pc = [t \in Threads |-> "done"]
    /\ row = [t \in Threads |-> 0]
    /\ col = [t \in Threads |-> 0]
    /\ row_current_sum = [t \in Threads |-> 0]
    /\ current = [t \in Threads |-> 0]

\* compute_optical_propagation(voltage_inputs) on a newly built engine, at
\* the start of the parallel region
EngInit ==
    /\ team \in 1 .. NumThreads
    /\ voltage_inputs \in [Rows -> Volts]
    /\ temperature = [i \in Cells |-> T_AMBIENT]
    /\ current_outputs = [r \in Rows |-> 0]
    /\ eng_pc = [t \in Threads |-> IF t <= team THEN "for_row" ELSE "done"]
    /\ row = [t \in Threads |-> IF t <= team THEN FirstRow(t) ELSE 0]
    /\ col = [t \in Threads |-> 0]
    /\ row_current_sum = [t \in Threads |-> 0]
    /\ current = [t \in Threads |-> 0]

EngUnchanged ==
    UNCHANGED <<team, voltage_inputs, scramVars, poolVars, coreVars, drvVars,
                hostVars, reqVars, neonVars>>

\* for (int row ...; row < end; ...) { double row_current_sum = 0.0;
RowBegin(t) ==
    /\ eng_pc[t] = "for_row"
    /\ IF row[t] < EndRow(t)
       THEN /\ row_current_sum' = [row_current_sum EXCEPT ![t] = 0]
            /\ col' = [col EXCEPT ![t] = 0]
            /\ eng_pc' = [eng_pc EXCEPT ![t] = "for_col"]
       ELSE /\ eng_pc' = [eng_pc EXCEPT ![t] = "done"]
            /\ UNCHANGED <<row_current_sum, col>>
    /\ UNCHANGED <<temperature, current_outputs, row, current>>
    /\ EngUnchanged

\* the loads of one cell, its current, and the local accumulation
CellLoad(t) ==
    /\ eng_pc[t] = "for_col"
    /\ col[t] < matrix_size
    /\ current' = [current EXCEPT ![t] =
                      CellCurrent(Conductance(Idx(t)), voltage_inputs[col[t]],
                                  temperature[Idx(t)])]
    /\ row_current_sum' = [row_current_sum EXCEPT ![t] = @ + current'[t]]
    /\ eng_pc' = [eng_pc EXCEPT ![t] = "heat"]
    /\ UNCHANGED <<temperature, current_outputs, row, col>>
    /\ EngUnchanged

\* crossbar_array[idx].temperature += (current * V) * 1e-9; ++col
CellHeat(t) ==
    /\ eng_pc[t] = "heat"
    /\ temperature' = [temperature EXCEPT ![Idx(t)] =
                          @ + SelfHeating(current[t], voltage_inputs[col[t]])]
    /\ col' = [col EXCEPT ![t] = @ + 1]
    /\ eng_pc' = [eng_pc EXCEPT ![t] = "for_col"]
    /\ UNCHANGED <<current_outputs, row, row_current_sum, current>>
    /\ EngUnchanged

\* current_outputs[row] = row_current_sum; ++row
RowStore(t) ==
    /\ eng_pc[t] = "for_col"
    /\ col[t] = matrix_size
    /\ current_outputs' = [current_outputs EXCEPT ![row[t]] = row_current_sum[t]]
    /\ row' = [row EXCEPT ![t] = @ + 1]
    /\ eng_pc' = [eng_pc EXCEPT ![t] = "for_row"]
    /\ UNCHANGED <<temperature, col, row_current_sum, current>>
    /\ EngUnchanged

EngNext ==
    \E t \in Threads : RowBegin(t) \/ CellLoad(t) \/ CellHeat(t) \/ RowStore(t)

\* the parallel region has ended: every thread is through its rows
Joined == \A t \in Threads : eng_pc[t] = "done"

\* none of the function-level components in use
FnParked == ReqParked /\ NeonParked /\ EngParked

(* ======================================================================= *)
(*  Specifications                                                         *)
(* ======================================================================= *)

Init == ScramInit /\ PoolInit /\ CoreInit /\ DrvInit /\ HostParked /\ FnParked
Next == ScramNext \/ PoolNext \/ CoreNext \/ DrvNext
Spec == Init /\ [][Next]_vars

\* the safety monitor held in reset
ScramParked ==
    /\ ScramInit
    /\ rst_n = 0
    /\ heartbeat_signal = 0
    /\ temp_sensor_raw = 0
    /\ hb_seen = 0

\* one idle pool of 4 MiB
PoolParked ==
    /\ PoolInit
    /\ base_pointer = HUGE_PAGE_SIZE
    /\ total_capacity = Capacity(4)

\* the safety monitor, beside one idle pool
InitScram ==
    /\ ScramInit
    /\ PoolInit
    /\ base_pointer = HUGE_PAGE_SIZE
    /\ total_capacity = Capacity(4)
    /\ CoreParked
    /\ DrvParked
    /\ HostParked
    /\ FnParked
SpecScram == InitScram /\ [][ScramNext]_vars

\* the safety monitor at power-up, before rst_n was ever low: no register
\* of the module has an initial value
InitScramPowerUp ==
    /\ rst_n \in Bit
    /\ heartbeat_signal \in Bit
    /\ temp_sensor_raw \in TempValues
    /\ watchdog_counter \in 0 .. WATCHDOG_LIMIT
    /\ heartbeat_prev \in Bit
    /\ current_state \in {STATE_OK, STATE_WARNING, STATE_SCRAM, STATE_DEAD}
    /\ power_cut_trigger \in Bit
    /\ system_locked \in Bit
    /\ status_leds \in {LED_GREEN, LED_PANIC}
    /\ hb_seen = heartbeat_signal
    /\ sig_quiet = 0
    /\ up_ticks = 0
    /\ chg_live = FALSE
    /\ scen = -1
    /\ scen_aligned = -1
    /\ fed = FALSE
    /\ in_step = FALSE
    /\ PoolParked
    /\ CoreParked
    /\ DrvParked
    /\ HostParked
    /\ FnParked
SpecScramPowerUp == InitScramPowerUp /\ [][ScramNext]_vars

\* the dispatcher and the safety monitor
InitDispatch ==
    /\ ScramInit
    /\ hb_seen = heartbeat_signal
    /\ PoolParked
    /\ CoreParked
    /\ DrvParked
    /\ HostParked
    /\ FnParked
SpecDispatch == InitDispatch /\ [][DispatchNext]_vars

\* the packet codec alone
InitCodec ==
    /\ HostParked
    /\ FnParked
    /\ ScramParked
    /\ PoolParked
    /\ CoreParked
    /\ DrvInit
    /\ reg_version = HW_VER
SpecCodec == InitCodec /\ [][CodecNext]_vars

\* the buffer pool, with the safety monitor held in reset
InitPool ==
    /\ PoolInit
    /\ ScramInit
    /\ rst_n = 0
    /\ heartbeat_signal = 0
    /\ temp_sensor_raw = 0
    /\ hb_seen = 0
    /\ CoreParked
    /\ DrvParked
    /\ HostParked
    /\ FnParked
SpecPool == InitPool /\ [][PoolNext]_vars

\* the crossbar controller alone
InitCore ==
    /\ CoreInit
    /\ ScramParked
    /\ PoolParked
    /\ DrvParked
    /\ HostParked
    /\ FnParked
SpecCore == InitCore /\ [][CoreNext]_vars

\* the kernel driver and the device registers alone
InitDrv ==
    /\ DrvInit
    /\ ScramParked
    /\ PoolParked
    /\ CoreParked
    /\ HostParked
    /\ FnParked
SpecDrv == InitDrv /\ [][DrvNext]_vars
\* the pool alone, constructed with pool_size_mb = 1 on a mapped region
InitPoolOne ==
    /\ InitPool
    /\ base_pointer = HUGE_PAGE_SIZE
    /\ total_capacity = Capacity(1)
SpecPoolOne == InitPoolOne /\ [][PoolNext]_vars

\* one allocation request alone
InitRequest ==
    /\ ReqInit
    /\ ScramParked
    /\ PoolParked
    /\ CoreParked
    /\ DrvParked
    /\ HostParked
    /\ NeonParked
    /\ EngParked
SpecRequest == InitRequest /\ [][ReqNext]_vars

\* one call of the vector kernel alone
InitNeon ==
    /\ NeonInit
    /\ ReqParked
    /\ EngParked
    /\ ScramParked
    /\ PoolParked
    /\ CoreParked
    /\ DrvParked
    /\ HostParked
SpecNeon == InitNeon /\ [][NeonNext]_vars

\* one call of the physics engine alone
InitEngine ==
    /\ EngInit
    /\ ReqParked
    /\ NeonParked
    /\ ScramParked
    /\ PoolParked
    /\ CoreParked
    /\ DrvParked
    /\ HostParked
SpecEngine == InitEngine /\ [][EngNext]_vars

\* the allocation path alone; thread 1 is scheduled fairly, the other
\* threads may stall for ever between their steps
InitLockFree ==
    /\ InitPool
    /\ base_pointer = HUGE_PAGE_SIZE
LockFreeNext == \E t \in Threads : allocate_tensor_buffer(t) \/ AllocReturn(t)
SpecLockFree == InitLockFree /\ [][LockFreeNext]_vars /\ WF_vars(AllocReturn(1))

(* ======================================================================= *)
(*  Properties of the safety monitor                                       *)
(* ======================================================================= *)

InScramOrDead == current_state \in {STATE_SCRAM, STATE_DEAD}

\* C3: a heartbeat that stops changing while rst_n stays high ends in SCRAM
\* and then DEAD whatever the temperature does: WATCHDOG_LIMIT + 1 clock
\* edges after the last change of the heartbeat level the monitor is in SCRAM
\* or DEAD, WATCHDOG_LIMIT + 2 edges after it the monitor is in DEAD
\* (the change sampled with rst_n high and no reset since); and in any case
\* WATCHDOG_LIMIT + 3 edges without a reset and without a change end in DEAD.
C3_HangEndsInDead ==
    /\ (chg_live /\ sig_quiet >= WATCHDOG_LIMIT + 1) => InScramOrDead
    /\ (chg_live /\ sig_quiet >= WATCHDOG_LIMIT + 2) => current_state = STATE_DEAD
    /\ (sig_quiet >= WATCHDOG_LIMIT + 3 /\ up_ticks >= WATCHDOG_LIMIT + 3)
          => current_state = STATE_DEAD

\* the monitor went dead by the watchdog alone, exactly at the deadline
C3_Witness ==
    /\ chg_live
    /\ sig_quiet = WATCHDOG_LIMIT + 2
    /\ current_state = STATE_DEAD
    /\ status_leds = LED_PANIC
    /\ temp_sensor_raw = 0

\* C4: with rst_n high, SCRAM and DEAD are never left for OK or WARNING,
\* DEAD is never left at all, and power_cut_trigger never falls.
C4_ScramIrreversible ==
    [][rst_n = 1 =>
         /\ InScramOrDead => current_state' \in {STATE_SCRAM, STATE_DEAD}
         /\ current_state = STATE_DEAD => current_state' = STATE_DEAD
         /\ power_cut_trigger = 1 => power_cut_trigger' = 1]_vars

\* DEAD with the relay open, while the heartbeat toggles again and the
\* temperature is back to 0
C4_Witness ==
    /\ current_state = STATE_DEAD
    /\ power_cut_trigger = 1
    /\ watchdog_counter = 0
    /\ sig_quiet = 0
    /\ chg_live
    /\ temp_sensor_raw = 0
    /\ status_leds = 0

\* C5: with rst_n high, OK is left at a clock edge exactly when the sampled
\* temperature is above TEMP_CRITICAL_LIMIT or the counter has reached
\* WATCHDOG_LIMIT, and then SCRAM is entered.
C5_LeavesOkIff ==
    [][(rst_n = 1 /\ current_state = STATE_OK) =>
         /\ (current_state' /= STATE_OK) <=>
               (temp_sensor_raw > TEMP_CRITICAL_LIMIT
                  \/ watchdog_counter >= WATCHDOG_LIMIT)
         /\ (current_state' /= STATE_OK) => current_state' = STATE_SCRAM]_vars

\* SCRAM entered on temperature: the counter is still below its limit
C5_Witness ==
    /\ current_state = STATE_SCRAM
    /\ watchdog_counter < WATCHDOG_LIMIT
    /\ watchdog_counter > 0
    /\ up_ticks >= 2

C7_PowerCutInScramAndDead ==
    InScramOrDead => power_cut_trigger = 1

\* C7 amended: power_cut_trigger is asserted whenever the state is DEAD; in
\* the one cycle in SCRAM it is not asserted yet, the clock edge that leaves
\* SCRAM asserts it.
C7_PowerCutInDead ==
    /\ current_state = STATE_DEAD => power_cut_trigger = 1
    /\ current_state = STATE_SCRAM => power_cut_trigger = 0

\* the first cycle in DEAD
C7_Witness ==
    /\ current_state = STATE_DEAD
    /\ power_cut_trigger = 1
    /\ status_leds = LED_PANIC

\* C8: at a clock edge with rst_n high, a heartbeat level different from
\* heartbeat_prev clears watchdog_counter and is stored in heartbeat_prev,
\* in every state and for every counter value; otherwise the counter is not
\* cleared and heartbeat_prev keeps its value.
C8_HeartbeatClearsCounter ==
    [][rst_n = 1 =>
         IF heartbeat_signal /= heartbeat_prev
         THEN watchdog_counter' = 0 /\ heartbeat_prev' = heartbeat_signal
         ELSE /\ watchdog_counter' >= watchdog_counter
              /\ watchdog_counter' > 0
              /\ heartbeat_prev' = heartbeat_prev]_vars

\* the counter was cleared by a falling heartbeat edge while in DEAD
C8_Witness ==
    /\ current_state = STATE_DEAD
    /\ watchdog_counter = 0
    /\ heartbeat_prev = 0
    /\ hb_seen = 0
    /\ sig_quiet = 0
    /\ chg_live
    /\ status_leds = 0

(* ======================================================================= *)
(*  Properties of the buffer pool                                          *)
(* ======================================================================= *)

CallIds == 1 .. Len(calls)

\* the call took the success branch and its caller holds a non-null pointer
Returned(c) == c.done /\ c.ok /\ c.ret /= NULL

\* [ret, ret + aligned_size) of two calls have a byte in common
Overlap(a, b) ==
    /\ a.ret < b.ret + b.aligned_size
    /\ b.ret < a.ret + a.aligned_size

\* s rounded up to the next multiple of 64, as a number (no wrap-around)
RoundUp64(s) == ((s + CACHE_LINE - 1) \div CACHE_LINE) * CACHE_LINE

\* sum of the aligned sizes of the calls before call i in the epoch of call i
RECURSIVE SumBefore(_, _)
SumBefore(i, j) ==
    IF j >= i THEN 0
    ELSE (IF calls[j].epoch = calls[i].epoch THEN calls[j].aligned_size ELSE 0)
         + SumBefore(i, j + 1)

\* sum of the aligned sizes of the calls since the last fast_reset
RECURSIVE SumCurrent(_)
SumCurrent(j) ==
    IF j > Len(calls) THEN 0
    ELSE (IF calls[j].epoch = epoch THEN calls[j].aligned_size ELSE 0)
         + SumCurrent(j + 1)

FirstInEpoch(i) == \A j \in 1 .. (i - 1) : calls[j].epoch /= calls[i].epoch

\* C1 as stated: the buffers returned by calls with no fast_reset between
\* them are pairwise disjoint, for all sizes and every interleaving.
C1_BuffersDisjoint ==
    \A i, j \in CallIds :
        (i < j /\ calls[i].epoch = calls[j].epoch
               /\ Returned(calls[i]) /\ Returned(calls[j]))
            => ~Overlap(calls[i], calls[j])

\* C2 as stated: a non-null result lies within the capacity, the sum of the
\* offset before the call and the aligned size taken without wrap-around.
C2_NeverBeyondCapacity ==
    \A i \in CallIds :
        (calls[i].done /\ calls[i].ret /= NULL)
            => calls[i].old_offset + calls[i].aligned_size <= total_capacity

\* C9: current_offset is a multiple of 64 in every state, the pool base is
\* 64-byte aligned, and so is every address returned.
C9_Aligned64 ==
    /\ current_offset % CACHE_LINE = 0
    /\ base_pointer % CACHE_LINE = 0
    /\ \A i \in CallIds :
          /\ calls[i].old_offset % CACHE_LINE = 0
          /\ (calls[i].done /\ calls[i].ok) => calls[i].ret % CACHE_LINE = 0

\* a buffer returned behind an earlier one, both for sizes that are no
\* multiple of 64
C9_Witness ==
    \E i \in CallIds :
        /\ Returned(calls[i])
        /\ calls[i].size % CACHE_LINE /= 0
        /\ calls[i].old_offset > 0
        /\ calls[i].ret > base_pointer

\* C10: the first call after construction or fast_reset, for a size whose
\* round-up to 64 fits in the capacity, succeeds, returns base_pointer and
\* leaves current_offset at the rounded size; every successful call returns
\* base_pointer plus the aligned sizes of the earlier calls since the last
\* fast_reset (in size_t arithmetic), which is where current_offset stands.
C10_BumpAddresses ==
    /\ current_offset = Wrap(SumCurrent(1))
    /\ \A i \in CallIds :
          LET c == calls[i] IN
          /\ c.old_offset = Wrap(SumBefore(i, 1))
          /\ (c.done /\ c.ok) => c.ret = Wrap(base_pointer + Wrap(SumBefore(i, 1)))
          /\ (FirstInEpoch(i) /\ RoundUp64(c.size) <= total_capacity) =>
                /\ c.old_offset = 0
                /\ c.aligned_size = RoundUp64(c.size)
                /\ c.done => (c.ok /\ c.ret = base_pointer)
                /\ (c.epoch = epoch
                      /\ \A j \in CallIds : j /= i => calls[j].epoch /= epoch)
                      => current_offset = RoundUp64(c.size)

\* scenario A: 1 MiB from a fresh 4 MiB pool
C10_Witness ==
    /\ total_capacity = 4 * MiB
    /\ Len(calls) = 1
    /\ calls[1].size = MiB
    /\ calls[1].done /\ calls[1].ok
    /\ calls[1].ret = base_pointer
    /\ current_offset = MiB

\* the capacity test of a logged call, whether it has returned or not
WillSucceed(c) == ~OutOfMemory(c.old_offset, c.aligned_size, total_capacity)

\* sum of the aligned sizes of the succeeding calls before call i in its epoch
RECURSIVE SumOkBefore(_, _)
SumOkBefore(i, j) ==
    IF j >= i THEN 0
    ELSE (IF calls[j].epoch = calls[i].epoch /\ WillSucceed(calls[j])
          THEN calls[j].aligned_size ELSE 0)
         + SumOkBefore(i, j + 1)

\* no size_t computation of the logged calls wrapped around
NoWrap ==
    \A i \in CallIds :
        /\ calls[i].aligned_size = RoundUp64(calls[i].size)
        /\ SumBefore(i, 1) + calls[i].aligned_size <= SIZE_MAX

\* C11 as stated, for histories in which nothing wraps around: a call
\* fails only when the aligned sizes of the buffers handed out since the
\* last reset plus its own aligned size exceed total_capacity (so after an
\* OutOfMemory a request that fits in the bytes not handed out succeeds).
C11_NullOnlyWhenExhausted ==
    NoWrap =>
        \A i \in CallIds :
            (calls[i].done /\ ~calls[i].ok)
                => SumOkBefore(i, 1) + calls[i].aligned_size > total_capacity

\* C11 amended: a call takes the OutOfMemory path, and returns null, exactly
\* when the aligned sizes of ALL earlier calls since the last reset, failed
\* ones included, plus its own aligned size (in size_t arithmetic) exceed
\* total_capacity; an exact fit succeeds; and unless size_t wraps around,
\* every call after a failed one fails until fast_reset.
C11_NullWhenOffsetPastCapacity ==
    /\ \A i \in CallIds :
          calls[i].done =>
             /\ ~calls[i].ok <=>
                   Wrap(Wrap(SumBefore(i, 1)) + calls[i].aligned_size) > total_capacity
             /\ ~calls[i].ok => calls[i].ret = NULL
    /\ NoWrap =>
          \A i, j \in CallIds :
              (i < j /\ calls[i].epoch = calls[j].epoch /\ ~WillSucceed(calls[i]))
                  => ~WillSucceed(calls[j])

\* a request refused although it fits in the bytes not handed out
C11_Witness ==
    /\ NoWrap
    /\ \E i \in CallIds :
          /\ calls[i].done /\ ~calls[i].ok
          /\ SumOkBefore(i, 1) + calls[i].aligned_size <= total_capacity

\* C12 as stated, on a pool whose base is not null: after a failed call,
\* and until fast_reset, no call returns an address at or beyond the failed
\* call's offset before its update.
C12_FailedRangeNeverReused ==
    \A i, j \in CallIds :
        (/\ base_pointer /= NULL
         /\ i < j /\ calls[i].epoch = calls[j].epoch /\ ~WillSucceed(calls[i]))
            => ~(/\ calls[j].done /\ calls[j].ok
                 /\ calls[j].ret >= base_pointer + calls[i].old_offset)

\* the sizes of the calls before call i in its epoch, in fetch_add order
RECURSIVE EpochSizes(_, _)
EpochSizes(i, j) ==
    IF j >= i THEN << >>
    ELSE (IF calls[j].epoch = calls[i].epoch THEN <<calls[j].size>> ELSE << >>)
         \o EpochSizes(i, j + 1)

\* current_offset of a freshly constructed pool after sequential calls
RECURSIVE FreshOffset(_)
FreshOffset(sizes) ==
    IF sizes = << >> THEN 0
    ELSE FetchAddStored(FreshOffset(SubSeq(sizes, 1, Len(sizes) - 1)),
                        ALIGN_UP(sizes[Len(sizes)], CACHE_LINE))

\* call i got what a freshly constructed pool gives for the same sequence
MatchesFreshPool(i) ==
    LET c == calls[i]
        old == FreshOffset(EpochSizes(i, 1))
        oom == OutOfMemory(old, ALIGN_UP(c.size, CACHE_LINE), total_capacity)
    IN /\ c.old_offset = old
       /\ c.done => /\ c.ok = ~oom
                    /\ c.ret = IF oom THEN NULL ELSE BufferAddr(base_pointer, old)

C14_ResetReusesLiveBytes ==
    \A i, j \in CallIds :
        (/\ i < j
         /\ FirstInEpoch(i) /\ FirstInEpoch(j)
         /\ WillSucceed(calls[i]) /\ WillSucceed(calls[j])
         /\ calls[i].aligned_size > 0 /\ calls[j].aligned_size > 0)
            => /\ calls[i].old_offset < calls[j].old_offset + calls[j].aligned_size
               /\ calls[j].old_offset < calls[i].old_offset + calls[i].aligned_size

\* the interleaving: a call did its fetch_add, fast_reset stored 0, a second
\* call returned the same bytes, and then the first call returned too
C14_Witness ==
    /\ NoWrap
    /\ Len(calls) = 2
    /\ calls[1].epoch = 0 /\ calls[2].epoch = 1
    /\ Returned(calls[1]) /\ Returned(calls[2])
    /\ Overlap(calls[1], calls[2])
    /\ local[1] = 1 /\ local[2] = 2

C16_OnlyControlWritten ==
    \A w \in mmio_writes : w[1] = REG_CONTROL /\ w[1] \notin ReadOnlyRegs

\* C17: while the controller is in LOAD, WAIT, READ or DONE the start input
\* is not read: every register after the clock edge is what it would be with
\* start low, and the next state is never LOAD.
C17_StartIgnoredWhileBusy ==
    [][(top_rst_n = 1 /\ core_state \in BusyStates) =>
          /\ core_state' = CoreNextState(core_state, 0, delay_counter)
          /\ core_state' /= STATE_LOAD
          /\ delay_counter' = DelayCounterNext(core_state, delay_counter)
          /\ result_out' = ResultOutNext(core_state, adc_in_parallel, result_out)
          /\ done' = DoneNext(core_state, done)]_vars

\* start was sampled high during the operation, start is high again, and
\* the operation has reached DONE with the sampled ADC value in result_out
C17_Witness ==
    /\ top_rst_n = 1
    /\ core_state = STATE_DONE
    /\ busy_start
    /\ s_axis_tvalid = 1
    /\ wait_cycles = 0
    /\ latched /= -1
    /\ result_out = latched

C19_VersionGate ==
    drv_loaded => (REG_VERSION \in mmio_reads /\ reg_version = SW_VER)

\* C20 as stated: when the device is still busy after the timeout, the host
\* has written the soft reset to CONTROL and has reported a timeout, not a
\* success, to the caller.
C20_TimeoutHandled ==
    (job = "running" /\ elapsed > TimeoutTicks)
        => /\ <<REG_CONTROL, CTRL_SOFT_RESET>> \in mmio_writes
           /\ reg_control = CTRL_SOFT_RESET
           /\ last_ret.ret < 0

\* C21 as stated: a host operation that runs while ERROR holds the
\* thermal-critical sentinel and an operation is in flight aborts the
\* operation (CONTROL.abort) and returns an error to its caller.
C21_ThermalAbort ==
    [][(/\ reg_error = THERMAL_CRITICAL
        /\ job = "running"
        /\ (hocs_read \/ hocs_irq_handler))
          => /\ job' = "none"
             /\ <<REG_CONTROL, CTRL_ABORT>> \in mmio_writes'
             /\ last_ret'.ret < 0]_vars

(* ======================================================================= *)
(*  Properties of the crossbar controller's timing and outputs             *)
(* ======================================================================= *)

\* C26 as stated: the controller enters READ after exactly 20 clock cycles
\* spent in WAIT.
C26_WaitsTwentyCycles ==
    core_state = STATE_READ => wait_cycles = SETTLE_CYCLES

\* C27: with rst_n high, a start sampled in IDLE leads through LOAD, WAIT,
\* READ and DONE in this order and back to IDLE after a fixed number of
\* clock cycles; the controller leaves WAIT after a bounded number of
\* cycles, and delay_counter is 0 whenever WAIT is entered.
C27_FixedSequence ==
    /\ [](core_state = STATE_WAIT =>
             /\ delay_counter = wait_cycles
             /\ wait_cycles <= SETTLE_CYCLES + 1)
    /\ [](core_state \in BusyStates => op_cycles <= SETTLE_CYCLES + 4)
    /\ [][(core_state /= STATE_WAIT /\ core_state' = STATE_WAIT)
             => (core_state = STATE_LOAD /\ delay_counter' = 0)]_vars
    /\ [][top_rst_n = 1 =>
            CASE core_state = STATE_IDLE ->
                   core_state' = IF s_axis_tvalid = 1 THEN STATE_LOAD
                                 ELSE STATE_IDLE
              [] core_state = STATE_LOAD -> core_state' = STATE_WAIT
              [] core_state = STATE_WAIT ->
                   /\ core_state' \in {STATE_WAIT, STATE_READ}
                   /\ core_state' = STATE_READ
                        <=> wait_cycles = SETTLE_CYCLES + 1
              [] core_state = STATE_READ -> core_state' = STATE_DONE
              [] core_state = STATE_DONE ->
                   /\ core_state' = STATE_IDLE
                   /\ op_cycles' = SETTLE_CYCLES + 5
              [] OTHER -> FALSE]_vars

\* a second operation in a row has come back to IDLE, the controller never
\* having been reset in between
C27_Witness ==
    /\ top_rst_n = 1
    /\ core_state = STATE_IDLE
    /\ op_cycles = SETTLE_CYCLES + 5
    /\ done = 1
    /\ latched /= -1
    /\ dac_out \notin UninitWords

\* C28 as stated: s_axis_tready is low whenever the controller is not in
\* IDLE.
C28_ReadyLowWhileBusy ==
    core_state /= STATE_IDLE => s_axis_tready = 0

\* C29 as stated: done is low in WAIT and READ, and whenever done is high
\* result_out is the ADC value latched in READ of the last completed
\* operation.
C29_DoneShowsLatched ==
    /\ core_state \in {STATE_WAIT, STATE_READ} => done = 0
    /\ done = 1 => (latched /= -1 /\ result_out = latched)

(* ======================================================================= *)
(*  Thermal trip of the safety monitor                                     *)
(* ======================================================================= *)

\* C30: with rst_n high, a temperature above TEMP_CRITICAL_LIMIT sampled
\* in OK puts the monitor in SCRAM at that clock edge, and the next clock
\* edge puts it in DEAD with the relay open, whatever temperature and
\* heartbeat that edge samples.
C30_ThermalTrip ==
    [][rst_n = 1 =>
         /\ (current_state = STATE_OK /\ temp_sensor_raw > TEMP_CRITICAL_LIMIT)
               => current_state' = STATE_SCRAM
         /\ current_state = STATE_SCRAM
               => /\ current_state' = STATE_DEAD
                  /\ power_cut_trigger' = 1
                  /\ system_locked' = 1]_vars

\* DEAD two clock edges after a reset, too early for the watchdog: the
\* heartbeat changed at the last edge and the temperature is back to 0
C30_Witness ==
    /\ rst_n = 1
    /\ current_state = STATE_DEAD
    /\ up_ticks = 2
    /\ watchdog_counter = 0
    /\ sig_quiet = 0
    /\ temp_sensor_raw = 0
    /\ power_cut_trigger = 1

(* ======================================================================= *)
(*  Heartbeat of the dispatcher                                            *)
(* ======================================================================= *)

\* a submission was made since the last clock edge
Submitted == heartbeat_signal /= hb_seen

\* every submission, whatever its outcome, inverts the heartbeat level once
SubmitToggles ==
    \A outcome \in Outcomes :
        submit(outcome) => heartbeat_signal' = 1 - heartbeat_signal

C24_CheckOrder ==
    decoded /= NoResult =>
        /\ "magic" \in damage => decoded.result = "MagicMismatch"
        /\ ("magic" \notin damage /\ damage \cap {"trunc", "len"} /= {})
              => decoded.result = "Truncated"
        /\ (damage \cap {"magic", "trunc", "len"} = {}
               /\ damage \cap {"body", "crc"} /= {})
              => decoded.result = "ChecksumError"
        /\ decoded.result /= "JobPacket"
              => decoded = Fail(decoded.result, decoded.touched)
        /\ decoded.touched <= Len(wire)

\* a buffer with a changed magic, cut short, with payload_len raised and a
\* changed body was rejected for its magic after four bytes
C24_Witness ==
    /\ damage = {"magic", "trunc", "len", "body"}
    /\ Len(wire) = OFF_DATA + FIELD_SIZE - 1
    /\ decoded.result = "MagicMismatch"
    /\ decoded.touched = 4

C31_NoSpuriousShutdown ==
    fed => (current_state = STATE_OK /\ power_cut_trigger = 0)

\* C31 outside that case: the same, unless the heartbeat fell from high to low at
\* the first clock edge after the reset.
C31_NoSpuriousShutdownInStep ==
    (fed /\ in_step) =>
        /\ current_state = STATE_OK
        /\ power_cut_trigger = 0
        /\ watchdog_counter < WATCHDOG_LIMIT

\* long after the reset the counter stands one below the limit and the
\* monitor is still in OK
C31_Witness ==
    /\ rst_n = 1
    /\ fed
    /\ in_step
    /\ up_ticks = GhostCap
    /\ watchdog_counter = WATCHDOG_LIMIT - 1
    /\ current_state = STATE_OK
    /\ power_cut_trigger = 0

\* C32: watchdog_counter is always within 0 .. WATCHDOG_LIMIT; at a clock
\* edge with rst_n high that samples no heartbeat change it grows by one
\* below the limit and keeps the limit once there, in every state of the
\* FSM.
C32_CounterBounded ==
    /\ [](watchdog_counter \in 0 .. WATCHDOG_LIMIT)
    /\ [][(rst_n = 1 /\ heartbeat_signal = heartbeat_prev) =>
            watchdog_counter' = IF watchdog_counter < WATCHDOG_LIMIT
                                THEN watchdog_counter + 1
                                ELSE WATCHDOG_LIMIT]_vars

\* the counter has stood at the limit for several clock edges in DEAD
C32_Witness ==
    /\ rst_n = 1
    /\ current_state = STATE_DEAD
    /\ watchdog_counter = WATCHDOG_LIMIT
    /\ sig_quiet = GhostCap
    /\ up_ticks = GhostCap

\* C33: power_cut_trigger and system_locked are equal in every state, and
\* both are 0 in OK.
C33_CutEqualsLocked ==
    /\ power_cut_trigger = system_locked
    /\ current_state = STATE_OK => (power_cut_trigger = 0 /\ system_locked = 0)

\* both flags are set, several clock edges into DEAD
C33_Witness ==
    /\ current_state = STATE_DEAD
    /\ power_cut_trigger = 1
    /\ system_locked = 1
    /\ status_leds = 0
    /\ up_ticks = GhostCap

(* ======================================================================= *)
(*  Properties of the kernel driver's entry points                         *)
(* ======================================================================= *)

AllResources == {"chrdev_region", "class", "device", "cdev"}

\* C34 as stated: hocs_driver_init returns 0 only when all four steps
\* succeeded, the module then holding all four resources, and after an
\* error it holds none.
C34_InitAllOrNothing ==
    /\ drv_loaded => (init_ret = 0 /\ held = AllResources)
    /\ init_ret /= 0 => (~drv_loaded /\ held = {})

\* C35 as stated: the copy of hocs_write stores at most sizeof(cmd_reg)
\* bytes, and every byte of the word written to CONTROL was stored by it.
C35_WriteCopiesCommandWord ==
    /\ last_copy.len <= SIZEOF_U32
    /\ last_copy.unwritten = 0

(* ======================================================================= *)
(*  The aligned size of a request                                          *)
(* ======================================================================= *)

\* C36: for every size, the aligned size used by allocate_tensor_buffer is
\* the smallest multiple of 64 that is at least the size, so a returned
\* buffer is never shorter than the size requested.
C36_AlignedCoversRequest ==
    req_ret /= "none" =>
        /\ req_aligned % CACHE_LINE = 0
        /\ req_aligned >= req_size
        /\ req_aligned - req_size < CACHE_LINE
        /\ (req_ret = "buffer" => req_aligned >= req_size)

\* C36 below the last multiple of 64: the aligned size is exact for every
\* size that has a multiple of 64 above it in size_t
C36_AlignedCoversRequestBelowTop ==
    (req_ret /= "none" /\ req_size <= SIZE_MAX - (CACHE_LINE - 1)) =>
        /\ req_aligned % CACHE_LINE = 0
        /\ req_aligned >= req_size
        /\ req_aligned - req_size < CACHE_LINE

(* ======================================================================= *)
(*  The vector kernel                                                      *)
(* ======================================================================= *)

\* C37: hocs_neon_accumulate adds src[i] to dest[i] exactly once for each i
\* in 0..count-1, loads or stores no element at an index >= count, modifies
\* no memory when count <= 0, and each step towards the return brings the
\* remaining count closer to zero.
C37_AccumulateExact ==
    /\ ~stray
    /\ count <= 0 => \A i \in Elements : adds[i] = 0
    /\ neon_pc = "L_done" =>
           \A i \in Elements : adds[i] = IF Owned(i) THEN 1 ELSE 0
    /\ neon_pc \in {"L_loop", "L_cleanup"} => x2 >= 0

\* C37 for a caller that sign-extends count into x2 (x2 + elem is the value
\* x2 had on entry): the routine is exact
C37_AccumulateExactExtended ==
    x2 + elem = count =>
        /\ ~stray
        /\ neon_pc = "L_done" =>
               \A i \in Elements : adds[i] = IF Owned(i) THEN 1 ELSE 0

(* ======================================================================= *)
(*  The parallel rows of the physics engine                                *)
(* ======================================================================= *)

\* C38: the parallel row iterations are free of data races: the iteration
\* for a row stores only to the crossbar cells row*N .. row*N+N-1 and to
\* current_outputs[row], no two threads access one location with one of them
\* storing, and after the region the outputs and the cells equal those of
\* the sequential execution of the loop.
C38_RowsRaceFree ==
    /\ ~DataRace
    /\ \A t \in Threads :
           NextStores(t) \subseteq
               ({<<"temperature", i>> :
                    i \in row[t] * matrix_size .. row[t] * matrix_size + matrix_size - 1}
                \cup {<<"current_outputs", row[t]>>})
    /\ Joined => (current_outputs = SeqOutputs /\ temperature = SeqTemperature)

\* a region of at least two threads has ended, the columns driven with
\* different voltages
C38_Witness ==
    /\ Joined
    /\ team >= 2
    /\ voltage_inputs[0] /= voltage_inputs[1]
    /\ \A r \in Rows : current_outputs[r] > 0
    /\ \A i \in Cells : temperature[i] > T_AMBIENT

====
